---- MODULE Spec2Model ----
(***************************************************************************)
(* A model of package snap (KasonBraley/snap): snapshot assertions whose   *)
(* expected value is a string literal in the test source, compared with    *)
(* equalExcludingIgnored and rewritten in place by Snapshot.Diff.          *)
(*                                                                         *)
(* Strings are sequences of one-character strings.                         *)
(***************************************************************************)
EXTENDS Integers, Sequences, FiniteSets, TLC

VARIABLES
    file,       \* the test source file on disk
    compiled,   \* what the running test binary was compiled from
    env,        \* TRUE iff SNAP_UPDATE is present in the environment
    sess,       \* the *Snapshot the test holds, or NoSession
    t,          \* what the last call reported to the *testing.T
    last,       \* the last call of Diff: its inputs and what it did to the file
    mGot,       \* equalExcludingIgnored: argument got
    mSnapshot,  \* equalExcludingIgnored: argument snapshot
    mResult,    \* equalExcludingIgnored: "pending", then its outcome
    par         \* two calls of Diff running at once: how far each has come

vars == <<file, compiled, env, sess, t, last, mGot, mSnapshot, mResult, par>>
progVars == <<file, compiled, env, sess, t, last>>
matchVars == <<mGot, mSnapshot, mResult>>

----------------------------------------------------------------------------
(* package strings *)

\* strings.Index: the offset of the first occurrence of sep in s, or -1.
Index(s, sep) ==
    LET at == {i \in 0..(Len(s) - Len(sep)) : SubSeq(s, i + 1, i + Len(sep)) = sep}
    IN  IF at = {} THEN -1 ELSE CHOOSE i \in at : \A j \in at : i <= j

\* strings.Cut: s around the first occurrence of sep.
Cut(s, sep) ==
    LET i == Index(s, sep)
    IN  IF i < 0
        THEN [before |-> s, after |-> <<>>, found |-> FALSE]
        ELSE [before |-> SubSeq(s, 1, i),
              after  |-> SubSeq(s, i + Len(sep) + 1, Len(s)),
              found  |-> TRUE]

Contains(s, sep) == Index(s, sep) >= 0

HasPrefix(s, p) == Len(s) >= Len(p) /\ SubSeq(s, 1, Len(p)) = p

HasSuffix(s, p) == Len(s) >= Len(p) /\ SubSeq(s, Len(s) - Len(p) + 1, Len(s)) = p

----------------------------------------------------------------------------
(* equalExcludingIgnored *)

ignoreFmt == <<"<", "s", "n", "a", "p", ":", "i", "g", "n", "o", "r", "e", ">">>

LineBreak == <<"\n">>

Bool(b) == IF b THEN "true" ELSE "false"

\* A mutation of IgnoredOk: the line-break test on the ignored span is lost.
IgnoredOkAcrossLines(ignored) == Len(ignored) # 0

\* The test on the span a marker stands for (the negation of the code's
\* "len(ignored) == 0 || strings.Contains(ignored, "\n")").
IgnoredOk(ignored) == Len(ignored) # 0 /\ ~Contains(ignored, LineBreak)

\* The for loop: one unfolding per iteration; "panic" is the panic on an empty
\* nextMatchPrefix.
RECURSIVE matchLoop(_, _)
matchLoop(gotRest, snapshotRest) ==
    LET sc == Cut(snapshotRest, ignoreFmt) IN
    IF ~sc.found THEN Bool(gotRest = snapshotRest)
    ELSE
    LET gc == Cut(gotRest, sc.before) IN
    IF ~gc.found THEN Bool(gotRest = snapshotRest)
    ELSE IF Len(gc.before) # 0 THEN "false"
    ELSE
    LET gotRest2 == gc.after
        snapshotRest2 == sc.after
        nc == Cut(snapshotRest2, ignoreFmt)
        nextMatchPrefix == IF nc.found THEN nc.before ELSE snapshotRest2
    IN
    IF Len(nextMatchPrefix) = 0 THEN "panic"
    ELSE
    LET sr == Cut(snapshotRest2, nextMatchPrefix)
        snapshotRest3 == IF sr.found THEN sr.after ELSE snapshotRest2
        gn == Cut(gotRest2, nextMatchPrefix)
    IN
    IF ~gn.found THEN "false"
    ELSE IF ~IgnoredOk(gn.before) THEN "false"
    ELSE matchLoop(gn.after, snapshotRest3)

\* "true", "false", or "panic" when the function panics instead of returning.
equalExcludingIgnored(got, snapshot) ==
    IF HasPrefix(snapshot, ignoreFmt) \/ HasSuffix(snapshot, ignoreFmt)
    THEN "panic"
    ELSE matchLoop(got, snapshot)

----------------------------------------------------------------------------
(* The test source file and the Go string literals in it.                  *)
(*                                                                         *)
(* A file is its import declaration and its snapshot calls, one statement  *)
(* per call: X.Sel(t, arg), followed by the Diff of the value under test.  *)
(* arg is a string literal (kind "lit", tok its source text with the       *)
(* delimiters) or a variable (kind "ident", tok the variable's value).     *)
(* gots are the values the code under test can produce for that call.      *)
(* Literal texts are over the characters 4, 8, n, double quote, backslash, *)
(* backtick, line break and those of the marker.                           *)

Quote == "\""
Backslash == "\\"
\* The backtick, which a TLA+ string cannot hold, is the character "bq".
Backtick == "bq"

Str(c) == <<c>>

\* go/scanner, scanEscape: the character an escape sequence of an interpreted
\* string stands for; \4 and \8 start no valid escape over these characters.
EscapeValue(c) ==
    CASE c = "n" -> "\n"
      [] c = "r" -> "\r"
      [] c = "a" -> "\\a"
      [] c = Backslash -> Backslash
      [] c = Quote -> Quote
      [] OTHER -> "invalid"

NotALiteral == [ok |-> FALSE, raw |-> FALSE, value |-> <<>>, end |-> 0]

\* go/scanner, scanString: from offset i inside an interpreted string literal to
\* its closing quote.
RECURSIVE scanString(_, _, _)
scanString(tok, i, acc) ==
    IF i > Len(tok) THEN NotALiteral
    ELSE IF tok[i] = Quote THEN [ok |-> TRUE, raw |-> FALSE, value |-> acc, end |-> i]
    ELSE IF tok[i] = "\n" THEN NotALiteral
    ELSE IF tok[i] = Backslash
         THEN IF i + 1 > Len(tok) \/ EscapeValue(tok[i + 1]) = "invalid"
              THEN NotALiteral
              ELSE scanString(tok, i + 2, Append(acc, EscapeValue(tok[i + 1])))
    ELSE scanString(tok, i + 1, Append(acc, tok[i]))

\* go/scanner, scanRawString: up to the next backtick.
scanRawString(tok) ==
    LET c == Cut(SubSeq(tok, 2, Len(tok)), Str(Backtick))
    IN  IF ~c.found THEN NotALiteral
        ELSE [ok |-> TRUE, raw |-> TRUE, value |-> c.before, end |-> Len(c.before) + 2]

\* What parser.ParseFile makes of the text tok in argument position: one string
\* literal and its value, or a syntax error (ok = FALSE) when the text is not
\* exactly one literal.
ParseLit(tok) ==
    LET lit == IF tok = <<>> THEN NotALiteral
               ELSE IF tok[1] = Quote THEN scanString(tok, 2, <<>>)
               ELSE IF tok[1] = Backtick THEN scanRawString(tok)
               ELSE NotALiteral
    IN  IF lit.ok /\ lit.end = Len(tok) THEN lit ELSE NotALiteral

\* parser.ParseFile succeeds.
FileParses(f) ==
    \A i \in 1..Len(f.calls) : f.calls[i].kind = "lit" => ParseLit(f.calls[i].tok).ok

RECURSIVE LineBreaks(_)
LineBreaks(s) ==
    IF s = <<>> THEN 0
    ELSE (IF Head(s) = "\n" THEN 1 ELSE 0) + LineBreaks(Tail(s))

\* fset.Position(callExpr.Pos()).Line of the i-th call: literals that span
\* several lines push the later calls down.
RECURSIVE CallLine(_, _)
CallLine(f, i) ==
    IF i = 1 THEN 1
    ELSE CallLine(f, i - 1) + 1
         + (IF f.calls[i - 1].kind = "lit" THEN LineBreaks(f.calls[i - 1].tok) ELSE 0)

TestFile == "snap_test.go"

\* go test: what the test binary holds of each call.
Compile(f) ==
    [i \in 1..Len(f.calls) |->
        [line |-> CallLine(f, i),
         text |-> IF f.calls[i].kind = "lit"
                  THEN ParseLit(f.calls[i].tok).value ELSE f.calls[i].tok,
         gots |-> f.calls[i].gots]]

----------------------------------------------------------------------------
(* Snapshot *)

NoProgram == [imports |-> "none", calls |-> <<>>]

NoLocation == [file |-> "", line |-> 0]

NoSession ==
    [kind |-> "none", site |-> 0, location |-> NoLocation, text |-> <<>>,
     updateThis |-> FALSE, t |-> "nil", foundCallerLocation |-> FALSE]

\* The process died of a panic.
Dead == [NoSession EXCEPT !.kind = "dead"]

NoReport == [by |-> "none", errors |-> {}, logs |-> {}]

NoDiff ==
    [kind |-> "none", got |-> <<>>, text |-> <<>>, line |-> 0, site |-> 0,
     updateThis |-> FALSE, found |-> FALSE, env |-> FALSE, result |-> "none",
     parsed |-> FALSE, wrote |-> FALSE,
     before |-> NoProgram, rebuilt |-> FALSE,
     prev |-> [updated |-> FALSE, got |-> <<>>, site |-> 0]]

\* The goroutines that call Diff at the same time.
Workers == {1, 2}

\* A goroutine before it has called Snap: s is its Snapshot, got the argument
\* of its Diff, read the file as parser.ParseFile read it, buf the bytes
\* format.Node left in the buffer.
NoWorker ==
    [pc |-> "idle", s |-> NoSession, got |-> <<>>,
     read |-> NoProgram, buf |-> NoProgram, errors |-> {}, logs |-> {}]

NoWorkers == [w \in Workers |-> NoWorker]

\* The file right after os.OpenFile with O_TRUNC: no bytes.
Truncated == [imports |-> "none", calls |-> <<>>]

\* A mutation of shouldUpdate: the foundCallerLocation test is lost.
shouldUpdateUnlocated(s, hasEnv) == s.updateThis \/ hasEnv

shouldUpdate(s, hasEnv) ==
    IF ~s.foundCallerLocation THEN FALSE
    ELSE IF s.updateThis THEN TRUE
    ELSE hasEnv

\* The value the rewrite gives a literal: raw stays raw, anything else is put
\* between double quotes; got goes in as it is.
Requote(tok, got) ==
    IF Len(tok) >= 2 /\ tok[1] = Backtick /\ tok[Len(tok)] = Backtick
    THEN Str(Backtick) \o got \o Str(Backtick)
    ELSE Str(Quote) \o got \o Str(Quote)

\* A mutation of Rewritten: the comparison of the call's line with the
\* Snapshot's is lost.
RewrittenAnyLine(f, line) ==
    {i \in 1..Len(f.calls) :
        /\ f.calls[i].X = "snap" /\ f.calls[i].Sel = "Snap"
        /\ f.calls[i].kind = "lit"}

\* The calls ast.Inspect's callback replaces the literal of.
Rewritten(f, line) ==
    {i \in 1..Len(f.calls) :
        /\ f.calls[i].X = "snap" /\ f.calls[i].Sel = "Snap"
        /\ CallLine(f, i) = line
        /\ f.calls[i].kind = "lit"}

\* The syntax tree after ast.Inspect, as format.Node prints it.
Rewrite(f, line, got) ==
    [f EXCEPT !.calls =
        [i \in 1..Len(f.calls) |->
            IF i \in Rewritten(f, line)
            THEN [f.calls[i] EXCEPT !.tok = Requote(f.calls[i].tok, got)]
            ELSE f.calls[i]]]

\* format.Node: a file with a grouped import declaration is parsed again after
\* printing (to sort the imports), and a syntax error is then returned; any
\* other file is printed as it is.
FormatOk(f) == f.imports = "grouped" => FileParses(f)

\* Snapshot.Diff from its first statement to its return (or panic): what it
\* reports, whether it parsed the file, and the file it leaves. openFails says
\* whether os.OpenFile returns an error.
DiffOutcome(s, hasEnv, f, got, openFails) ==
    LET panicked == [result |-> "panic", errors |-> {}, logs |-> {},
                     parsed |-> FALSE, wrote |-> FALSE, file |-> f]
    IN
    IF s.t = "nil" THEN panicked
    ELSE
    LET eq == equalExcludingIgnored(got, s.text) IN
    IF eq = "panic" THEN panicked
    ELSE IF eq = "true" THEN [panicked EXCEPT !.result = "match"]
    ELSE
    LET differs == IF s.text # got THEN {"differs"} ELSE {}
        mismatch == [panicked EXCEPT !.result = "mismatch", !.errors = differs]
    IN
    IF ~shouldUpdate(s, hasEnv) THEN [mismatch EXCEPT !.logs = {"rerun"}]
    ELSE
    LET tried == [mismatch EXCEPT !.parsed = TRUE] IN
    IF ~FileParses(f) THEN [tried EXCEPT !.errors = differs \cup {"parse"}]
    ELSE
    LET out == Rewrite(f, s.location.line, got) IN
    IF ~FormatOk(out) THEN [tried EXCEPT !.errors = differs \cup {"format"}]
    ELSE IF openFails THEN [tried EXCEPT !.errors = differs \cup {"open"}]
    ELSE [tried EXCEPT !.wrote = TRUE, !.file = out, !.logs = {"updated"}]

----------------------------------------------------------------------------
(* The test files the runs start from.                                     *)

Text4 == <<"4">>
Text8 == <<"8">>

Quoted(text) == Str(Quote) \o text \o Str(Quote)
Raw(text) == Str(Backtick) \o text \o Str(Backtick)

Call(X, kind, tok, gots) ==
    [X |-> X, Sel |-> "Snap", kind |-> kind, tok |-> tok, gots |-> gots]

\* Calls whose rewrite can leave a literal that is no literal; the files with
\* them come with and without a grouped import declaration.
QuotingCalls ==
    { Call("snap", "lit", Quoted(Text8),
           {Text4, <<Backslash, "n">>, <<"4", Quote>>}),
      Call("snap", "lit", Raw(Text8),
           {Text4, <<"4", "\n", "4">>, Str(Backtick)}) }

OtherCalls ==
    { Call("foo", "lit", Quoted(Text8), {Text4}),
      Call("snap", "ident", Text8, {Text4}),
      Call("snap", "lit", Raw(<<"4">> \o ignoreFmt \o <<"8", "\n", "8">>),
           {<<"4", "4", "8", "\n", "4">>, <<"4", "4", "8", "\n", "8">>}),
      Call("snap", "lit", Quoted(<<"e">> \o ignoreFmt \o <<"e">>),
           {<<"e">> \o ignoreFmt \o <<"e">>, <<"e", "4", "e">>}) }

SecondCall == Call("snap", "lit", Quoted(Text8), {Text4})

InitFiles ==
    {[imports |-> im, calls |-> <<c, SecondCall>>] :
        im \in {"grouped", "single"}, c \in QuotingCalls}
    \cup {[imports |-> "grouped", calls |-> <<c, SecondCall>>] : c \in OtherCalls}

----------------------------------------------------------------------------
(* The operations.                                                         *)

Init ==
    /\ file \in InitFiles
    /\ compiled = Compile(file)
    /\ env = FALSE
    /\ sess = NoSession
    /\ t = NoReport
    /\ last = NoDiff
    /\ mGot = <<>>
    /\ mSnapshot = <<>>
    /\ mResult = "none"
    /\ par = NoWorkers

\* snap.Snap(t, text) at call site; ok is what runtime.Caller(1) returns.
Snap(site, ok) ==
    /\ sess.kind # "dead"
    /\ sess' = [kind |-> "snapshot",
                site |-> site,
                location |-> IF ok THEN [file |-> TestFile, line |-> compiled[site].line]
                             ELSE NoLocation,
                text |-> compiled[site].text,
                updateThis |-> FALSE,
                t |-> "t",
                foundCallerLocation |-> ok]
    /\ t' = [by |-> "Snap", errors |-> IF ok THEN {} ELSE {"caller"}, logs |-> {}]
    /\ UNCHANGED <<file, compiled, env, last>>
    /\ UNCHANGED <<matchVars, par>>

\* s.Update(): the test goes on with the Snapshot it returns.
Update ==
    /\ sess.kind = "snapshot"
    /\ sess' = [kind |-> "snapshot",
                site |-> sess.site,
                location |-> [file |-> sess.location.file, line |-> sess.location.line],
                text |-> sess.text,
                updateThis |-> TRUE,
                t |-> "nil",
                foundCallerLocation |-> FALSE]
    /\ UNCHANGED <<file, compiled, env, t, last>>
    /\ UNCHANGED <<matchVars, par>>

\* s.Diff(got)
Diff(got, openFails) ==
    /\ sess.kind = "snapshot"
    /\ LET o == DiffOutcome(sess, env, file, got, openFails)
           line == sess.location.line
       IN  /\ file' = o.file
           /\ t' = [by |-> "Diff", errors |-> o.errors, logs |-> o.logs]
           /\ sess' = IF o.result = "panic" THEN Dead ELSE sess
           /\ last' = [kind |-> "Diff", got |-> got, text |-> sess.text,
                       line |-> line, site |-> sess.site,
                       updateThis |-> sess.updateThis,
                       found |-> sess.foundCallerLocation, env |-> env,
                       result |-> o.result, parsed |-> o.parsed, wrote |-> o.wrote,
                       before |-> file, rebuilt |-> FALSE,
                       prev |-> [updated |-> last.wrote /\ last.rebuilt,
                                 got |-> last.got, site |-> last.site]]
    /\ UNCHANGED <<compiled, env>>
    /\ UNCHANGED <<matchVars, par>>

\* SNAP_UPDATE=1 is put into the environment.
Setenv ==
    /\ ~env
    /\ env' = TRUE
    /\ UNCHANGED <<file, compiled, sess, t, last>>
    /\ UNCHANGED <<matchVars, par>>

Unsetenv ==
    /\ env
    /\ env' = FALSE
    /\ UNCHANGED <<file, compiled, sess, t, last>>
    /\ UNCHANGED <<matchVars, par>>

\* The tests are run again: go test builds the file as it is now. Of the last
\* Diff of the run before, what it was given and whether it wrote the file
\* (and logged the update) are kept.
Rerun ==
    /\ FileParses(file)
    /\ compiled' = Compile(file)
    /\ sess' = NoSession
    /\ t' = NoReport
    /\ last' = [NoDiff EXCEPT !.rebuilt = TRUE, !.wrote = last.wrote,
                              !.got = last.got, !.site = last.site]
    /\ UNCHANGED <<file, env>>
    /\ UNCHANGED <<matchVars, par>>

\* The values the test can pass to Diff on the Snapshot it holds.
Actuals == IF sess.kind = "snapshot" THEN compiled[sess.site].gots ELSE {}

Next ==
    \/ \E site \in 1..Len(compiled), ok \in BOOLEAN : Snap(site, ok)
    \/ Update
    \/ \E got \in Actuals, openFails \in BOOLEAN : Diff(got, openFails)
    \/ Setenv
    \/ Unsetenv
    \/ Rerun

Spec == Init /\ [][Next]_vars

----------------------------------------------------------------------------
(* Two goroutines (parallel tests of one file) that each call Diff. Between *)
(* its statements a Diff shares with the other only the file, which it     *)
(* reads in parser.ParseFile, empties in os.OpenFile and writes in io.Copy *)
(* (one write of the whole buffer at offset 0). The literals and the       *)
(* actual values here all have one character, so every buffer has the      *)
(* length of the file and a write leaves exactly its buffer in the file.   *)

Text5 == <<"5">>

ParGots == {Text4, Text5, Text8}

ParFiles ==
    {[imports |-> "grouped",
      calls |-> <<Call("snap", "lit", tok, ParGots), Call("snap", "lit", tok, ParGots)>>] :
        tok \in {Quoted(Text8), Raw(Text8)}}

InitPar ==
    /\ file \in ParFiles
    /\ compiled = Compile(file)
    /\ env \in BOOLEAN
    /\ sess = NoSession
    /\ t = NoReport
    /\ last = NoDiff
    /\ mGot = <<>>
    /\ mSnapshot = <<>>
    /\ mResult = "none"
    /\ par = NoWorkers

\* parser.ParseFile on the file as it is now: a file without bytes has no
\* package clause.
ParseOk(f) == f # Truncated /\ FileParses(f)

\* Goroutine w calls snap.Snap(t, text) at call site.
ParSnap(w, site, ok) ==
    /\ par[w].pc = "idle"
    /\ par' = [par EXCEPT ![w] =
            [@ EXCEPT !.pc = "ready",
                      !.s = [kind |-> "snapshot",
                             site |-> site,
                             location |-> IF ok THEN [file |-> TestFile,
                                                      line |-> compiled[site].line]
                                          ELSE NoLocation,
                             text |-> compiled[site].text,
                             updateThis |-> FALSE,
                             t |-> "t",
                             foundCallerLocation |-> ok],
                      !.errors = IF ok THEN {} ELSE {"caller"}]]
    /\ UNCHANGED <<progVars, matchVars>>

\* Goroutine w calls s.Diff(got): the comparison, the report of a difference
\* and the decision to update.
ParStart(w, got) ==
    /\ par[w].pc = "ready"
    /\ LET s == par[w].s
           eq == equalExcludingIgnored(got, s.text)
           differs == IF s.text # got THEN {"differs"} ELSE {}
       IN  par' = [par EXCEPT ![w] =
               IF eq # "false" THEN [@ EXCEPT !.pc = "done", !.got = got]
               ELSE IF ~shouldUpdate(s, env)
               THEN [@ EXCEPT !.pc = "done", !.got = got,
                              !.errors = @ \cup differs, !.logs = {"rerun"}]
               ELSE [@ EXCEPT !.pc = "checked", !.got = got,
                              !.errors = @ \cup differs]]
    /\ UNCHANGED <<progVars, matchVars>>

\* parser.ParseFile reads the file; ast.Inspect and format.Node then work on
\* the goroutine's own tree and buffer.
ParParse(w) ==
    /\ par[w].pc = "checked"
    /\ LET out == Rewrite(file, par[w].s.location.line, par[w].got) IN
       par' = [par EXCEPT ![w] =
               IF ~ParseOk(file)
               THEN [@ EXCEPT !.pc = "done", !.errors = @ \cup {"parse"}]
               ELSE IF ~FormatOk(out)
               THEN [@ EXCEPT !.pc = "done", !.read = file, !.errors = @ \cup {"format"}]
               ELSE [@ EXCEPT !.pc = "formatted", !.read = file, !.buf = out]]
    /\ UNCHANGED <<progVars, matchVars>>

\* os.OpenFile(file, O_WRONLY|O_TRUNC): the file loses its bytes.
ParOpen(w, openFails) ==
    /\ par[w].pc = "formatted"
    /\ IF openFails
       THEN /\ par' = [par EXCEPT ![w] =
                        [@ EXCEPT !.pc = "done", !.errors = @ \cup {"open"}]]
            /\ UNCHANGED file
       ELSE /\ par' = [par EXCEPT ![w] = [@ EXCEPT !.pc = "opened"]]
            /\ file' = Truncated
    /\ UNCHANGED <<compiled, env, sess, t, last>>
    /\ UNCHANGED matchVars

\* io.Copy(outFile, &buf), then the log of the update.
ParWrite(w) ==
    /\ par[w].pc = "opened"
    /\ file' = par[w].buf
    /\ par' = [par EXCEPT ![w] = [@ EXCEPT !.pc = "done", !.logs = {"updated"}]]
    /\ UNCHANGED <<compiled, env, sess, t, last>>
    /\ UNCHANGED matchVars

NextPar ==
    \/ \E w \in Workers, site \in 1..Len(compiled), ok \in BOOLEAN : ParSnap(w, site, ok)
    \/ \E w \in Workers, got \in ParGots : ParStart(w, got)
    \/ \E w \in Workers : ParParse(w)
    \/ \E w \in Workers, openFails \in BOOLEAN : ParOpen(w, openFails)
    \/ \E w \in Workers : ParWrite(w)

SpecPar == InitPar /\ [][NextPar]_vars

----------------------------------------------------------------------------
(* Inputs of equalExcludingIgnored: texts built from a few items, one of    *)
(* which is the marker. "e" is a character of the marker itself.           *)

MaxGotItems == 5
MaxSnapshotItems == 5

TextItems == {<<"e">>, LineBreak, ignoreFmt}

RECURSIVE Flatten(_)
Flatten(items) ==
    IF items = <<>> THEN <<>> ELSE Head(items) \o Flatten(Tail(items))

TextsUpTo(n) == {Flatten(is) : is \in UNION {[1..k -> TextItems] : k \in 0..n}}

InitMatch ==
    /\ mGot \in TextsUpTo(MaxGotItems)
    /\ mSnapshot \in TextsUpTo(MaxSnapshotItems)
    /\ mResult = "pending"
    /\ file = NoProgram
    /\ compiled = <<>>
    /\ env = FALSE
    /\ sess = NoSession
    /\ t = NoReport
    /\ last = NoDiff
    /\ par = NoWorkers

\* A call equalExcludingIgnored(mGot, mSnapshot).
Match ==
    /\ mResult = "pending"
    /\ mResult' = equalExcludingIgnored(mGot, mSnapshot)
    /\ UNCHANGED <<mGot, mSnapshot>>
    /\ UNCHANGED <<progVars, par>>

NextMatch == Match

SpecMatch == InitMatch /\ [][NextMatch]_vars

----------------------------------------------------------------------------
(* The matcher's contract (spec 4.1, 8), stated without the algorithm.     *)

MarkerFree(s) == ~Contains(s, ignoreFmt)

\* The fixed texts of an expected text: what lies before, between and after its
\* markers, from left to right.
RECURSIVE FixedParts(_)
FixedParts(s) ==
    LET c == Cut(s, ignoreFmt)
    IN  IF ~c.found THEN <<s>> ELSE <<c.before>> \o FixedParts(c.after)

\* got is parts[1] s1 parts[2] s2 ... parts[n] for some non-empty s1, s2, ...
\* without a line break.
RECURSIVE Instantiates(_, _)
Instantiates(got, parts) ==
    IF Len(parts) = 1 THEN got = parts[1]
    ELSE /\ HasPrefix(got, parts[1])
         /\ LET rest == SubSeq(got, Len(parts[1]) + 1, Len(got))
            IN  \E k \in 1..Len(rest) :
                    /\ ~Contains(SubSeq(rest, 1, k), LineBreak)
                    /\ Instantiates(SubSeq(rest, k + 1, Len(rest)), Tail(parts))

\* got = a + b + c and snapshot = a + marker + c for non-empty marker-free
\* a, b, c; the operator is b.
OneMarkerSpans(got, snapshot) ==
    LET parts == FixedParts(snapshot)
    IN  IF /\ Len(parts) = 2
           /\ parts[1] # <<>> /\ parts[2] # <<>>
           /\ HasPrefix(got, parts[1]) /\ HasSuffix(got, parts[2])
           /\ Len(got) > Len(parts[1]) + Len(parts[2])
        THEN {SubSeq(got, Len(parts[1]) + 1, Len(got) - Len(parts[2]))}
        ELSE {}

MarkerMisused(snapshot) ==
    \/ HasPrefix(snapshot, ignoreFmt)
    \/ HasSuffix(snapshot, ignoreFmt)
    \/ Contains(snapshot, ignoreFmt \o ignoreFmt)

\* C4: for non-empty marker-free a, b, c with no line break in b,
\* equalExcludingIgnored(a + b + c, a + marker + c) returns true.
C4_OneMarkerComplete ==
    mResult # "pending" =>
        \A b \in OneMarkerSpans(mGot, mSnapshot) :
            (MarkerFree(mGot) /\ ~Contains(b, LineBreak)) => mResult = "true"

\* C5: whenever equalExcludingIgnored returns true, got is the snapshot with
\* every marker replaced by a non-empty text without a line break; and for
\* non-empty marker-free a, b, c with a line break in b the result is false.
C5_MatcherSound ==
    /\ mResult = "true" => Instantiates(mGot, FixedParts(mSnapshot))
    /\ mResult # "pending" =>
        \A b \in OneMarkerSpans(mGot, mSnapshot) :
            (MarkerFree(mGot) /\ Contains(b, LineBreak)) => mResult = "false"

\* C5 witness: a true result in which a marker stood for part of got.
C5_Witness ==
    /\ mResult = "true"
    /\ Len(FixedParts(mSnapshot)) = 3
    /\ MarkerFree(mGot)

\* C6: an expected text that starts or ends with the marker, or holds two
\* markers with nothing between them, makes equalExcludingIgnored panic
\* whatever got is.
C6_MisuseAborts ==
    (mResult # "pending" /\ MarkerMisused(mSnapshot)) => mResult = "panic"

----------------------------------------------------------------------------
(* Snapshot.Diff: what the documentation and the spec say of it.           *)

\* The lines of a text.
Lines(s) ==
    LET RECURSIVE split(_)
        split(r) == LET c == Cut(r, LineBreak)
                    IN  IF ~c.found THEN <<r>> ELSE <<c.before>> \o split(c.after)
    IN  split(s)

\* What lies between the delimiters of a literal's source text.
Inner(tok) == SubSeq(tok, 2, Len(tok) - 1)

DiffDone == last.kind = "Diff" /\ t.by = "Diff"

\* The calls a rewrite for that line is meant for: the snapshot-constructor
\* calls at the line, whatever the package is called, with a string literal.
ConstructorCallsAt(f, line) ==
    {i \in 1..Len(f.calls) :
        /\ f.calls[i].Sel = "Snap"
        /\ CallLine(f, i) = line
        /\ f.calls[i].kind = "lit"}

\* Those calls for the last Diff, and the calls whose literal it replaced.
Targets == ConstructorCallsAt(last.before, last.line)

Replaced == IF last.wrote THEN Rewritten(last.before, last.line) ELSE {}

\* C1: a mismatching Diff on a Snapshot whose location was captured attempts
\* the rewrite when the Snapshot comes from Update() or SNAP_UPDATE is set.
C1_UpdateDecision ==
    ( /\ DiffDone
      /\ last.line > 0
      /\ last.updateThis \/ last.env
      /\ equalExcludingIgnored(last.got, last.text) = "false" )
    => last.parsed

\* C2: whatever the package is called at the call site, the rewrite replaces
\* the literal of the constructor call at the Snapshot's line.
C2_AliasIndependent ==
    (DiffDone /\ last.wrote) =>
        \A i \in Targets :
            file.calls[i].tok = Requote(last.before.calls[i].tok, last.got)

\* C3: every line of a multi-line literal that held the marker still holds it
\* after the rewrite, and every other line is the actual value's line.
C3_MarkersPreserved ==
    DiffDone =>
        \A i \in Replaced :
            LET old == Lines(last.text)
                new == Lines(Inner(file.calls[i].tok))
                act == Lines(last.got)
            IN  (Len(old) > 1 /\ Len(old) = Len(act)) =>
                    /\ Len(new) = Len(old)
                    /\ \A k \in 1..Len(old) :
                          IF Contains(old[k], ignoreFmt)
                          THEN Contains(new[k], ignoreFmt)
                          ELSE new[k] = act[k]

\* C7: after a rewrite the file parses, and the literal at the call has the
\* actual value as its value and the quoting style it had.
C7_RoundTrip ==
    (DiffDone /\ Replaced # {}) =>
        /\ FileParses(file)
        /\ \A i \in Replaced :
              /\ CallLine(file, i) = last.line
              /\ ParseLit(file.calls[i].tok).value = last.got
              /\ ParseLit(file.calls[i].tok).raw = ParseLit(last.before.calls[i].tok).raw

\* C8: when a Diff logged the file as updated, the same call built from the
\* rewritten file and given the same value matches: nothing is reported and
\* the file is not written.
C8_Idempotent ==
    ( /\ DiffDone
      /\ last.prev.updated
      /\ last.prev.site = last.site /\ last.prev.got = last.got
      /\ last.line > 0 /\ ~last.updateThis )
    => (last.result = "match" /\ t.errors = {} /\ ~last.wrote)

\* C9: a rewrite that finds no constructor call with a string literal at the
\* Snapshot's line reports that, logs no update and leaves the file as it was.
C9_NotFoundReported ==
    ( /\ DiffDone
      /\ last.parsed /\ FileParses(last.before)
      /\ Targets = {} )
    => ("notfound" \in t.errors /\ "updated" \notin t.logs /\ file = last.before)

\* C10: whenever the matcher returns false, Diff reports the comparison
\* failure.
C10_MismatchReported ==
    (DiffDone /\ last.result = "mismatch") => "differs" \in t.errors

\* C11: a Diff on a Snapshot whose location capture failed neither parses nor
\* writes the file, whatever the update flag and SNAP_UPDATE are; at most the
\* comparison failure is reported.
C11_UnlocatedNeverRewrites ==
    (DiffDone /\ ~last.found) =>
        /\ ~last.parsed /\ ~last.wrote
        /\ file = last.before
        /\ t.errors \subseteq {"differs"}
        /\ "updated" \notin t.logs

\* C11 witness: a reported mismatch on a Snapshot built when runtime.Caller
\* failed, with SNAP_UPDATE present.
C11_Witness ==
    /\ DiffDone
    /\ ~last.found /\ last.line = 0
    /\ last.env
    /\ last.result = "mismatch" /\ "differs" \in t.errors

\* Goroutine w has gone through the whole of Diff and logged the update.
Updated(w) == par[w].pc = "done" /\ "updated" \in par[w].logs

\* The literal goroutine w put at its call site.
NewLiteral(w) == Requote(par[w].read.calls[par[w].s.site].tok, par[w].got)

\* The file holds the literal goroutine w wrote.
HoldsNew(w) ==
    /\ file # Truncated
    /\ file.calls[par[w].s.site].tok = NewLiteral(w)

BothUpdated ==
    /\ Updated(1) /\ Updated(2)
    /\ par[1].s.location.line # par[2].s.location.line

\* C12: two concurrent updating Diffs at distinct lines of one file each
\* replace only their own literal in what they parsed and write the whole file
\* back: afterwards the file is the buffer of one of them, and when both parsed
\* the same file it holds the new literal of exactly one of the two.
C12_LostUpdate ==
    BothUpdated =>
        /\ file \in {par[1].buf, par[2].buf}
        /\ \A w \in Workers : \A i \in 1..Len(par[w].read.calls) :
               i # par[w].s.site => par[w].buf.calls[i] = par[w].read.calls[i]
        /\ \A w \in Workers : par[w].buf.calls[par[w].s.site].tok = NewLiteral(w)
        /\ par[1].read = par[2].read => (HoldsNew(1) /\ ~HoldsNew(2)) \/ (HoldsNew(2) /\ ~HoldsNew(1))

\* C12 witness: both Diffs logged the update, and the file holds the new
\* literal of the second goroutine but still the old one of the first.
C12_Witness ==
    /\ BothUpdated
    /\ par[1].read = par[2].read
    /\ HoldsNew(2) /\ ~HoldsNew(1)
    /\ file.calls[par[1].s.site].tok = par[1].read.calls[par[1].s.site].tok

====
